---- MODULE Spec2Model ----
(***************************************************************************)
(* A model of libsatoshi's block header (src/src/header.c): the 80-byte    *)
(* codec, proof-of-work verification and the mining loop, and of the       *)
(* process layer's termination callback (src/src/io/unix/ps.c and          *)
(* src/src/io/core_win_impl.h).                                            *)
(*                                                                         *)
(* A uint32_t is kept at its width as two 16-bit halves [hi, lo]: TLC's    *)
(* integers are 32-bit signed, and 0xFFFFFFFF + 1 = 0 matters to the       *)
(* mining loop.                                                            *)
(***************************************************************************)
EXTENDS Integers, Sequences, FiniteSets, TLC

VARIABLES
  \* ---- btc_header_write / btc_header_read ----
  src,        \* the header x handed to btc_header_write
  dst,        \* the header z handed to btc_header_read
  dst0,       \* z as it was before the call
  buf,        \* the bytes btc_header_write produced
  data,       \* the bytes *xp points at on entry to btc_header_read
  xp,         \* how far *xp has advanced
  xn,         \* *xn, the remaining count
  xn0,        \* *xn on entry
  rpc,        \* position in btc_header_read (the field about to be read)
  rret,       \* what btc_header_read returned (-1 while it has not)
  rfail       \* the field whose sub-read failed ("none" while none has)

codecVars == <<src, dst, dst0, buf, data, xp, xn, xn0, rpc, rret, rfail>>

VARIABLES
  \* ---- btc_header_verify ----
  vhdr,       \* the header hdr handed to btc_header_verify
  vhdr0,      \* hdr as it was before the call
  vtarget,    \* the local target[32]
  vhash,      \* the local hash[32]
  vpc,        \* position in btc_header_verify
  vret        \* what btc_header_verify returned (-1 while it has not)

verifyVars == <<vhdr, vhdr0, vtarget, vhash, vpc, vret>>

VARIABLES
  \* ---- btc_header_mine ----
  hdr,        \* the header being mined
  hdr0,       \* hdr as it was on entry
  target,     \* the caller's decoded target
  limit,      \* the caller's attempt limit (0: none)
  attempt,    \* the local attempt counter
  pre,        \* the prefix snapshot (hasher state after the first 76 bytes)
  ctx,        \* the per-attempt hasher state
  hash,       \* the local hash[32]
  mpc,        \* position in btc_header_mine
  mret,       \* what btc_header_mine returned (-1 while it has not)
  clockCalls, \* how often adjtime has been called
  lastClock,  \* what adjtime returned last
  finals      \* how often btc_hash256_final has been called

mineVars == <<hdr, hdr0, target, limit, attempt, pre, ctx, hash, mpc, mret,
              clockCalls, lastClock, finals>>

VARIABLES
  \* ---- btc_ps_onterm / real_handler ----
  platform,       \* "unix" (io/unix/ps.c) or "win" (io/core_win_impl.h)
  global_handler, \* the callback slot
  global_arg,     \* the callback's argument
  global_bound,   \* (win) whether real_handler has been registered
  installed,      \* the events real_handler is installed for
  opc,            \* position in btc_ps_onterm
  handlers,       \* the activations of real_handler: a signal stack on
                  \* unix, one thread per event on win
  fired,          \* how often the callback has been invoked
  delivered,      \* how many termination events have been delivered
  crashed         \* whether a call through a null callback was made

termVars == <<platform, global_handler, global_arg, global_bound, installed,
              opc, handlers, fired, delivered, crashed>>

VARIABLES
  \* ---- the once-initialization guard (core_win_impl.h) ----
  onceSite,  \* the function whose guard is exercised
  state,     \* the guard word: 0 uninitialized, 1 in progress, 2 done
  resource,  \* what the body initializes (version, the function pointer,
             \* freq_inv, mtx->handle): "unset" or "set"
  inits,     \* how often the resource has been initialized
  tpc,       \* per thread: position in the guarded function
  value,     \* per thread: the local holding the compare-exchange result
  used,      \* per thread: the resource as read behind the guard
  spun,      \* per thread: whether it has slept in the spin loop
  fault      \* "none", "abort" or "assert"

onceVars == <<onceSite, state, resource, inits, tpc, value, used, spun, fault>>

VARIABLES
  \* ---- btc_cond_t (core_win_impl.h) ----
  waiters,       \* cond->waiters
  signal,        \* cond->signal, an auto-reset event: TRUE when signaled
  broadcast,     \* cond->broadcast, a manual-reset event
  lock,          \* the thread inside cond->lock, 0 when free
  mtx,           \* the thread inside mtx->handle, 0 when free
  cpc,           \* per thread: position in its btc_cond_* call
  result,        \* per waiter: what WaitForMultipleObjects returned
  last_waiter,   \* per waiter: the local of btc_cond_wait
  have_waiters,  \* the local of btc_cond_signal / btc_cond_broadcast
  waitCalls,     \* btc_cond_wait calls begun
  arrived,       \* btc_cond_wait calls that have incremented waiters and
                 \* released the mutex
  sigCalls,      \* btc_cond_signal calls begun
  bcastCalls,    \* btc_cond_broadcast calls begun
  onTime         \* whether every signal and broadcast call so far began
                 \* with NWaiters calls arrived

condVars == <<waiters, signal, broadcast, lock, mtx, cpc, result, last_waiter,
              have_waiters, waitCalls, arrived, sigCalls, bcastCalls, onTime>>

vars == <<codecVars, verifyVars, mineVars, termVars, onceVars, condVars>>

\* What the actions of one operation leave alone: the other operations' state.
CodecFrame == UNCHANGED <<verifyVars, mineVars, termVars, onceVars, condVars>>

VerifyFrame == UNCHANGED <<codecVars, mineVars, termVars, onceVars, condVars>>

MineFrame == UNCHANGED <<codecVars, verifyVars, termVars, onceVars, condVars>>

TermFrame == UNCHANGED <<codecVars, verifyVars, mineVars, onceVars, condVars>>

OnceFrame == UNCHANGED <<codecVars, verifyVars, mineVars, termVars, condVars>>

CondFrame == UNCHANGED <<codecVars, verifyVars, mineVars, termVars, onceVars>>

(***************************************************************************)
(* Bounds of the model.                                                    *)
(***************************************************************************)
\* Bytes offered beyond one serialized header.
ExtraBytes == 2

\* The largest attempt limit handed to btc_header_mine.
MaxLimit == 4

\* Hash finalizations after which a search is followed no further.
MaxFinals == 6

\* Termination events delivered to the process.
MaxEvents == 3

\* Threads calling a once-guarded function concurrently.
NThreads == 3

\* Threads waiting on the condition variable.
NWaiters == 2

\* btc_cond_wait calls followed.
MaxWaitCalls == 3

\* btc_cond_signal and btc_cond_broadcast calls followed.
MaxWakeCalls == 2

(***************************************************************************)
(* 32-bit words and bytes.                                                 *)
(***************************************************************************)
W16 == 256 * 256

U32(h, l) == [hi |-> h, lo |-> l]

U32Zero == U32(0, 0)

U32Max == U32(W16 - 1, W16 - 1)

\* v++ on a uint32_t: 0xFFFFFFFF wraps to 0.
U32Inc(v) ==
  IF v.lo < W16 - 1 THEN U32(v.hi, v.lo + 1)
  ELSE IF v.hi < W16 - 1 THEN U32(v.hi + 1, 0)
  ELSE U32Zero

\* Field widths of the serialized header.
U32Width == 4

RawWidth == 32

RawZero == [i \in 1..RawWidth |-> 0]

RawAsc == [i \in 1..RawWidth |-> i]

RawDesc == [i \in 1..RawWidth |-> 255 - i]

\* btc_uint32_write: four bytes, least significant first.
btc_uint32_write(zp, v) ==
  zp \o <<v.lo % 256, v.lo \div 256, v.hi % 256, v.hi \div 256>>

\* btc_raw_write: n bytes verbatim.
btc_raw_write(zp, xs, n) == zp \o [i \in 1..n |-> xs[i]]

\* btc_uint32_read: fails without mutation unless four bytes remain.
btc_uint32_read(bytes, p, n) ==
  IF n < U32Width
    THEN [ok |-> FALSE, val |-> U32Zero, xp |-> p, xn |-> n]
    ELSE [ok |-> TRUE,
          val |-> U32(bytes[p + 3] + 256 * bytes[p + 4],
                      bytes[p + 1] + 256 * bytes[p + 2]),
          xp |-> p + U32Width, xn |-> n - U32Width]

\* btc_raw_read: fails without mutation unless zn bytes remain.
btc_raw_read(zn, bytes, p, n) ==
  IF n < zn
    THEN [ok |-> FALSE, val |-> RawZero, xp |-> p, xn |-> n]
    ELSE [ok |-> TRUE,
          val |-> [i \in 1..zn |-> bytes[p + i]],
          xp |-> p + zn, xn |-> n - zn]

(***************************************************************************)
(* Headers.                                                                *)
(***************************************************************************)
Header(v, p, m, t, b, n) ==
  [version |-> v, prev_block |-> p, merkle_root |-> m,
   time |-> t, bits |-> b, nonce |-> n]

\* btc_header_init
btc_header_init == Header(U32Zero, RawZero, RawZero, U32Zero, U32Zero, U32Zero)

\* btc_header_size
btc_header_size == U32Width + RawWidth + RawWidth + U32Width + U32Width + U32Width

\* btc_header_write with time and bits written in each other's place.
btc_header_write_swapped(zp, x) ==
  LET z1 == btc_uint32_write(zp, x.version)
      z2 == btc_raw_write(z1, x.prev_block, RawWidth)
      z3 == btc_raw_write(z2, x.merkle_root, RawWidth)
      z4 == btc_uint32_write(z3, x.bits)
      z5 == btc_uint32_write(z4, x.time)
  IN  btc_uint32_write(z5, x.nonce)

\* btc_header_write: the six fields in canonical order.
btc_header_write(zp, x) ==
  LET z1 == btc_uint32_write(zp, x.version)
      z2 == btc_raw_write(z1, x.prev_block, RawWidth)
      z3 == btc_raw_write(z2, x.merkle_root, RawWidth)
      z4 == btc_uint32_write(z3, x.time)
      z5 == btc_uint32_write(z4, x.bits)
  IN  btc_uint32_write(z5, x.nonce)

\* The headers the codec is exercised on: every field takes two values, and
\* neighbouring fields differ, so that a swapped or skipped field shows.
CodecHeaders ==
  { Header(v, p, m, t, b, n) :
      v \in {U32(0, 1), U32(32768, 2)},
      p \in {RawZero, RawAsc},
      m \in {RawAsc, RawDesc},
      t \in {U32(18783, 26153), U32Max},
      b \in {U32(7424, 65535), U32(8319, 65535)},
      n \in {U32(31787, 7453), U32Zero} }

\* What lies behind the serialized header in the caller's buffer.
Trailing == [i \in 1..ExtraBytes |-> 170]

CodecInit ==
  /\ src \in CodecHeaders
  /\ dst0 \in {btc_header_init, Header(U32(1, 1), RawDesc, RawZero, U32(2, 2), U32(3, 3), U32(4, 4))}
  /\ dst = dst0
  /\ buf = <<>>
  /\ data = <<>>
  /\ xp = 0
  /\ xn = 0
  /\ xn0 = 0
  /\ rpc = "write"
  /\ rret = -1
  /\ rfail = "none"

\* The caller serializes src into an empty buffer.
Serialize ==
  /\ rpc = "write"
  /\ buf' = btc_header_write(<<>>, src)
  /\ rpc' = "feed"
  /\ UNCHANGED <<src, dst, dst0, data, xp, xn, xn0, rret, rfail>>
  /\ CodecFrame

\* The caller hands btc_header_read the first n bytes of the buffer.
Feed(n) ==
  /\ rpc = "feed"
  /\ data' = SubSeq(buf \o Trailing, 1, n)
  /\ xp' = 0
  /\ xn' = n
  /\ xn0' = n
  /\ rpc' = "version"
  /\ UNCHANGED <<src, dst, dst0, buf, rret, rfail>>
  /\ CodecFrame

\* One sub-read of btc_header_read into a 32-bit field, with its early return.
ReadU32(f, next) ==
  /\ rpc = f
  /\ LET r == btc_uint32_read(data, xp, xn)
     IN  IF ~r.ok
           THEN /\ rret' = 0
                /\ rfail' = f
                /\ rpc' = "done"
                /\ UNCHANGED <<dst, xp, xn>>
           ELSE /\ dst' = [dst EXCEPT ![f] = r.val]
                /\ xp' = r.xp
                /\ xn' = r.xn
                /\ rpc' = next
                /\ UNCHANGED <<rret, rfail>>
  /\ UNCHANGED <<src, dst0, buf, data, xn0>>
  /\ CodecFrame

\* One sub-read of btc_header_read into a 32-byte field, with its early return.
ReadRaw(f, next) ==
  /\ rpc = f
  /\ LET r == btc_raw_read(RawWidth, data, xp, xn)
     IN  IF ~r.ok
           THEN /\ rret' = 0
                /\ rfail' = f
                /\ rpc' = "done"
                /\ UNCHANGED <<dst, xp, xn>>
           ELSE /\ dst' = [dst EXCEPT ![f] = r.val]
                /\ xp' = r.xp
                /\ xn' = r.xn
                /\ rpc' = next
                /\ UNCHANGED <<rret, rfail>>
  /\ UNCHANGED <<src, dst0, buf, data, xn0>>
  /\ CodecFrame

ReadVersion == ReadU32("version", "prev_block")

ReadPrevBlock == ReadRaw("prev_block", "merkle_root")

ReadMerkleRoot == ReadRaw("merkle_root", "time")

\* The time sub-read with its early return left out.
ReadTime_noReturn ==
  /\ rpc = "time"
  /\ LET r == btc_uint32_read(data, xp, xn)
     IN  /\ dst' = IF r.ok THEN [dst EXCEPT !.time = r.val] ELSE dst
         /\ xp' = r.xp
         /\ xn' = r.xn
  /\ rpc' = "bits"
  /\ UNCHANGED <<src, dst0, buf, data, xn0, rret, rfail>>
  /\ CodecFrame

ReadTime == ReadU32("time", "bits")

\* The bits sub-read storing into the time field.
ReadBits_intoTime ==
  /\ rpc = "bits"
  /\ LET r == btc_uint32_read(data, xp, xn)
     IN  IF ~r.ok
           THEN /\ rret' = 0
                /\ rfail' = "bits"
                /\ rpc' = "done"
                /\ UNCHANGED <<dst, xp, xn>>
           ELSE /\ dst' = [dst EXCEPT !.time = r.val]
                /\ xp' = r.xp
                /\ xn' = r.xn
                /\ rpc' = "nonce"
                /\ UNCHANGED <<rret, rfail>>
  /\ UNCHANGED <<src, dst0, buf, data, xn0>>
  /\ CodecFrame

ReadBits == ReadU32("bits", "nonce")

\* btc_header_read without its last sub-read.
ReadNonce_forgotten ==
  /\ rpc = "nonce"
  /\ rpc' = "return1"
  /\ UNCHANGED <<src, dst, dst0, buf, data, xp, xn, xn0, rret, rfail>>
  /\ CodecFrame

ReadNonce == ReadU32("nonce", "return1")

ReadReturn ==
  /\ rpc = "return1"
  /\ rret' = 1
  /\ rpc' = "done"
  /\ UNCHANGED <<src, dst, dst0, buf, data, xp, xn, xn0, rfail>>
  /\ CodecFrame

\* The codec at rest, for the specifications of the other operations.
CodecIdle ==
  /\ src = <<>>
  /\ dst0 = <<>>
  /\ dst = <<>>
  /\ buf = <<>>
  /\ data = <<>>
  /\ xp = 0
  /\ xn = 0
  /\ xn0 = 0
  /\ rpc = "idle"
  /\ rret = -1
  /\ rfail = "none"

(***************************************************************************)
(* The hasher: a streaming double-SHA256.  Its state is determined by the  *)
(* bytes absorbed so far, so the state is kept as that byte stream; the    *)
(* digest is a stand-in for SHA256(SHA256(.)) that depends on every byte   *)
(* and on its position.                                                    *)
(***************************************************************************)
btc_hash256_init == <<>>

\* btc_uint32_update: the four little-endian bytes of v enter the stream.
btc_uint32_update(c, v) ==
  c \o <<v.lo % 256, v.lo \div 256, v.hi % 256, v.hi \div 256>>

\* btc_raw_update: n bytes enter the stream verbatim.
btc_raw_update(c, xs, n) == c \o [i \in 1..n |-> xs[i]]

\* The weight of the byte at position i of the stream.
MixWeight(i) == ((37 * i * i + 101 * i + 13) % 251) + 1

RECURSIVE Mix(_, _, _)
Mix(stream, lo, hi) ==
  IF lo > hi THEN 0
  ELSE IF lo = hi THEN MixWeight(lo) * (stream[lo] + 1)
  ELSE LET mid == (lo + hi) \div 2
       IN  (Mix(stream, lo, mid) + Mix(stream, mid + 1, hi)) % 65521

\* btc_hash256_final: the 32-byte digest of the stream absorbed.
btc_hash256_final(c) ==
  LET s == Mix(c, 1, Len(c))
      m == ((s % 257) * (s % 263) + (s \div 7)) % 65521
  IN  [i \in 1..RawWidth |->
         IF i = RawWidth THEN m % 256
         ELSE IF i = RawWidth - 1 THEN (m \div 256) % 256
         ELSE (m + 7 * i) % 256]

(***************************************************************************)
(* Target arithmetic.  A 32-byte target or hash is an array whose index 1  *)
(* is the least significant byte.                                          *)
(***************************************************************************)
\* btc_compact_export: the target a compact value encodes, or failure.
btc_compact_export(bits) ==
  LET size == bits.hi \div 256
      mantissa == (bits.hi % 128) * W16 + bits.lo
      negative == (bits.hi \div 128) % 2 = 1
      mlen == IF mantissa >= W16 THEN 3 ELSE IF mantissa >= 256 THEN 2 ELSE 1
      shifted == IF size >= 3 THEN mantissa
                 ELSE IF size = 2 THEN mantissa \div 256
                 ELSE IF size = 1 THEN mantissa \div W16
                 ELSE 0
      low == IF size >= 3 THEN size - 3 ELSE 0
      bad == \/ mantissa = 0
             \/ negative
             \/ size > 34
             \/ (size >= 3 /\ size - 3 + mlen > RawWidth)
  IN  [ok |-> ~bad,
       target |-> IF bad THEN RawZero
                  ELSE [i \in 1..RawWidth |->
                          IF i = low + 1 THEN shifted % 256
                          ELSE IF i = low + 2 THEN (shifted \div 256) % 256
                          ELSE IF i = low + 3 THEN shifted \div W16
                          ELSE 0]]

\* btc_hash_compare: three-way comparison from the most significant byte down.
RECURSIVE CompareFrom(_, _, _)
CompareFrom(a, b, i) ==
  IF i = 0 THEN 0
  ELSE IF a[i] # b[i] THEN a[i] - b[i]
  ELSE CompareFrom(a, b, i - 1)

btc_hash_compare(a, b) == CompareFrom(a, b, RawWidth)

(***************************************************************************)
(* btc_header_hash and btc_header_verify.                                  *)
(***************************************************************************)
\* btc_header_hash with time and bits absorbed in each other's place.
HashStream_swapped(h) ==
  LET c1 == btc_uint32_update(btc_hash256_init, h.version)
      c2 == btc_raw_update(c1, h.prev_block, RawWidth)
      c3 == btc_raw_update(c2, h.merkle_root, RawWidth)
      c4 == btc_uint32_update(c3, h.bits)
      c5 == btc_uint32_update(c4, h.time)
  IN  btc_uint32_update(c5, h.nonce)

\* The bytes btc_header_hash feeds to the hasher.
HashStream(h) ==
  LET c1 == btc_uint32_update(btc_hash256_init, h.version)
      c2 == btc_raw_update(c1, h.prev_block, RawWidth)
      c3 == btc_raw_update(c2, h.merkle_root, RawWidth)
      c4 == btc_uint32_update(c3, h.time)
      c5 == btc_uint32_update(c4, h.bits)
  IN  btc_uint32_update(c5, h.nonce)

btc_header_hash(h) == btc_hash256_final(HashStream(h))

\* Compact values: regtest, mainnet genesis, a one-byte mantissa, the two
\* largest sizes that still fit, and four that do not decode (zero, sign
\* bit, oversize, overflow).
BitsRegtest == U32(8319, 65535)

BitsMainnet == U32(7424, 65535)

VerifyBits ==
  { BitsRegtest, BitsMainnet, U32(8192, 128), U32(8704, 1),
    U32(8448, 65535), U32Zero, U32(510, 56506), U32(65280, 1),
    U32(8449, 65535) }

VerifyHeaders ==
  { Header(v, RawZero, m, t, b, U32(0, n)) :
      v \in {U32(0, 1)},
      m \in {RawAsc, RawDesc},
      t \in {U32(18783, 26153)},
      b \in VerifyBits,
      n \in 0..5 }

VerifyInit ==
  /\ vhdr \in VerifyHeaders
  /\ vhdr0 = vhdr
  /\ vtarget = RawZero
  /\ vhash = RawZero
  /\ vpc = "export"
  /\ vret = -1

VerifyIdle ==
  /\ vhdr = <<>>
  /\ vhdr0 = <<>>
  /\ vtarget = <<>>
  /\ vhash = <<>>
  /\ vpc = "idle"
  /\ vret = -1

\* if (!btc_compact_export(target, hdr->bits)) return 0;
VerifyExport ==
  /\ vpc = "export"
  /\ LET r == btc_compact_export(vhdr.bits)
     IN  IF ~r.ok
           THEN /\ vret' = 0
                /\ vpc' = "done"
                /\ UNCHANGED vtarget
           ELSE /\ vtarget' = r.target
                /\ vpc' = "hash"
                /\ UNCHANGED vret
  /\ UNCHANGED <<vhdr, vhdr0, vhash>>
  /\ VerifyFrame

\* btc_header_hash(hash, hdr);
VerifyHash ==
  /\ vpc = "hash"
  /\ vhash' = btc_header_hash(vhdr)
  /\ vpc' = "compare"
  /\ UNCHANGED <<vhdr, vhdr0, vtarget, vret>>
  /\ VerifyFrame

\* The comparison with its arguments exchanged.
VerifyCompare_swapped ==
  /\ vpc = "compare"
  /\ vret' = IF btc_hash_compare(vtarget, vhash) <= 0 THEN 1 ELSE 0
  /\ vpc' = "done"
  /\ UNCHANGED <<vhdr, vhdr0, vtarget, vhash>>
  /\ VerifyFrame

\* return btc_hash_compare(hash, target) <= 0;
VerifyCompare ==
  /\ vpc = "compare"
  /\ vret' = IF btc_hash_compare(vhash, vtarget) <= 0 THEN 1 ELSE 0
  /\ vpc' = "done"
  /\ UNCHANGED <<vhdr, vhdr0, vtarget, vhash>>
  /\ VerifyFrame

(***************************************************************************)
(* btc_header_mine.                                                        *)
(***************************************************************************)
\* The hasher state after the first 76 bytes of h (through bits).
PrefixStream(h) ==
  LET c1 == btc_uint32_update(btc_hash256_init, h.version)
      c2 == btc_raw_update(c1, h.prev_block, RawWidth)
      c3 == btc_raw_update(c2, h.merkle_root, RawWidth)
      c4 == btc_uint32_update(c3, h.time)
  IN  btc_uint32_update(c4, h.bits)

\* What the clock callback may return.
ClockVals == {U32(18783, 26153), U32(18783, 26154)}

\* Starting nonces: in the middle, and up to three attempts before the wrap.
MineNonces == {U32Zero, U32(1, 65535), U32(65535, 65533), U32(65535, 65534), U32Max}

\* Targets: regtest, one in between, mainnet genesis.
MineTargets ==
  { btc_compact_export(BitsRegtest).target,
    btc_compact_export(U32(8224, 0)).target,
    btc_compact_export(BitsMainnet).target }

MineInit ==
  /\ hdr \in { Header(U32(0, 1), RawZero, RawAsc, U32(1, 1), BitsRegtest, n) :
                 n \in MineNonces }
  /\ hdr0 = hdr
  /\ target \in MineTargets
  /\ limit \in 0..MaxLimit
  /\ attempt = 0
  /\ pre = <<>>
  /\ ctx = <<>>
  /\ hash = RawZero
  /\ mpc = "entry"
  /\ mret = -1
  /\ clockCalls = 0
  /\ lastClock = U32Zero
  /\ finals = 0

MineIdle ==
  /\ hdr = <<>>
  /\ hdr0 = <<>>
  /\ target = <<>>
  /\ limit = 0
  /\ attempt = 0
  /\ pre = <<>>
  /\ ctx = <<>>
  /\ hash = <<>>
  /\ mpc = "idle"
  /\ mret = -1
  /\ clockCalls = 0
  /\ lastClock = U32Zero
  /\ finals = 0

\* uint64_t attempt = 0; memset(&pre, 0, sizeof(pre));
MineEnter ==
  /\ mpc = "entry"
  /\ attempt' = 0
  /\ pre' = <<>>
  /\ mpc' = "clock"
  /\ UNCHANGED <<hdr, hdr0, target, limit, ctx, hash, mret, clockCalls, lastClock, finals>>
  /\ MineFrame

\* hdr->time = adjtime(arg);
MineClock(t) ==
  /\ mpc = "clock"
  /\ hdr' = [hdr EXCEPT !.time = t]
  /\ clockCalls' = clockCalls + 1
  /\ lastClock' = t
  /\ mpc' = "prefix"
  /\ UNCHANGED <<hdr0, target, limit, attempt, pre, ctx, hash, mret, finals>>
  /\ MineFrame

\* btc_hash256_init(&pre) and the five updates through hdr->bits.
MinePrefix ==
  /\ mpc = "prefix"
  /\ pre' = PrefixStream(hdr)
  /\ mpc' = "final"
  /\ UNCHANGED <<hdr, hdr0, target, limit, attempt, ctx, hash, mret, clockCalls, lastClock, finals>>
  /\ MineFrame

\* ctx = pre; btc_uint32_update(&ctx, hdr->nonce); btc_hash256_final(&ctx, hash);
MineFinal ==
  /\ mpc = "final"
  /\ finals < MaxFinals
  /\ ctx' = btc_uint32_update(pre, hdr.nonce)
  /\ hash' = btc_hash256_final(btc_uint32_update(pre, hdr.nonce))
  /\ finals' = finals + 1
  /\ mpc' = "compare"
  /\ UNCHANGED <<hdr, hdr0, target, limit, attempt, pre, mret, clockCalls, lastClock>>
  /\ MineFrame

\* The comparison with the nonce already incremented when it succeeds.
MineCompare_incrFirst ==
  /\ mpc = "compare"
  /\ hdr' = [hdr EXCEPT !.nonce = U32Inc(hdr.nonce)]
  /\ IF btc_hash_compare(hash, target) <= 0
       THEN mret' = 1 /\ mpc' = "done"
       ELSE mpc' = "limit" /\ UNCHANGED mret
  /\ UNCHANGED <<hdr0, target, limit, attempt, pre, ctx, hash, clockCalls, lastClock, finals>>
  /\ MineFrame

\* if (btc_hash_compare(hash, target) <= 0) return 1;
MineCompare ==
  /\ mpc = "compare"
  /\ IF btc_hash_compare(hash, target) <= 0
       THEN mret' = 1 /\ mpc' = "done"
       ELSE mpc' = "incr" /\ UNCHANGED mret
  /\ UNCHANGED <<hdr, hdr0, target, limit, attempt, pre, ctx, hash, clockCalls, lastClock, finals>>
  /\ MineFrame

\* The limit tested before the nonce is incremented.
MineIncr_limitFirst ==
  /\ mpc = "incr"
  /\ IF limit > 0 /\ attempt + 1 = limit
       THEN /\ attempt' = attempt + 1
            /\ mret' = 0
            /\ mpc' = "done"
            /\ UNCHANGED hdr
       ELSE /\ hdr' = [hdr EXCEPT !.nonce = U32Inc(hdr.nonce)]
            /\ mpc' = "limit"
            /\ UNCHANGED <<attempt, mret>>
  /\ UNCHANGED <<hdr0, target, limit, pre, ctx, hash, clockCalls, lastClock, finals>>
  /\ MineFrame

\* hdr->nonce++;
MineIncr ==
  /\ mpc = "incr"
  /\ hdr' = [hdr EXCEPT !.nonce = U32Inc(hdr.nonce)]
  /\ mpc' = "limit"
  /\ UNCHANGED <<hdr0, target, limit, attempt, pre, ctx, hash, mret, clockCalls, lastClock, finals>>
  /\ MineFrame

\* The limit test with the attempt counter started afresh after each wrap.
MineLimit_perTick ==
  /\ mpc = "limit"
  /\ IF limit = 0
       THEN mpc' = "while" /\ UNCHANGED <<attempt, mret>>
       ELSE IF attempt + 1 = limit
         THEN attempt' = attempt + 1 /\ mret' = 0 /\ mpc' = "done"
         ELSE /\ attempt' = IF hdr.nonce = U32Zero THEN 0 ELSE attempt + 1
              /\ mpc' = "while"
              /\ UNCHANGED mret
  /\ UNCHANGED <<hdr, hdr0, target, limit, pre, ctx, hash, clockCalls, lastClock, finals>>
  /\ MineFrame

\* if (limit > 0 && ++attempt == limit) return 0;
MineLimit ==
  /\ mpc = "limit"
  /\ IF limit = 0
       THEN mpc' = "while" /\ UNCHANGED <<attempt, mret>>
       ELSE /\ attempt' = attempt + 1
            /\ IF attempt + 1 = limit
                 THEN mret' = 0 /\ mpc' = "done"
                 ELSE mpc' = "while" /\ UNCHANGED mret
  /\ UNCHANGED <<hdr, hdr0, target, limit, pre, ctx, hash, clockCalls, lastClock, finals>>
  /\ MineFrame

\* The loop test that never leaves the inner loop.
MineWhile_noRequery ==
  /\ mpc = "while"
  /\ mpc' = "final"
  /\ UNCHANGED <<hdr, hdr0, target, limit, attempt, pre, ctx, hash, mret, clockCalls, lastClock, finals>>
  /\ MineFrame

\* } while (hdr->nonce != 0); and back to the top of for (;;)
MineWhile ==
  /\ mpc = "while"
  /\ mpc' = IF hdr.nonce # U32Zero THEN "final" ELSE "clock"
  /\ UNCHANGED <<hdr, hdr0, target, limit, attempt, pre, ctx, hash, mret, clockCalls, lastClock, finals>>
  /\ MineFrame

(***************************************************************************)
(* The termination callback: btc_ps_onterm and real_handler.               *)
(*                                                                         *)
(* On unix real_handler is a signal handler installed with an empty        *)
(* sa_mask and sa_flags = 0: while it runs for one signal that signal is   *)
(* blocked and the other is not, so the activations nest and only the      *)
(* innermost runs.  On win each console control event runs real_handler on *)
(* a thread of its own, and the threads interleave.  The globals are plain *)
(* (not volatile, not atomic): the call may use the value the test loaded  *)
(* or load the slot again.                                                 *)
(***************************************************************************)
UnixSignals == {"SIGTERM", "SIGINT"}

ConsoleEvents == {"CTRL_C_EVENT", "CTRL_BREAK_EVENT"}

TermInit ==
  /\ platform \in {"unix", "win"}
  /\ global_handler = "NULL"
  /\ global_arg = "NULL"
  /\ global_bound = 0
  /\ installed = {}
  /\ opc = "set_handler"
  /\ handlers = <<>>
  /\ fired = 0
  /\ delivered = 0
  /\ crashed = FALSE

TermIdle ==
  /\ platform = "none"
  /\ global_handler = "NULL"
  /\ global_arg = "NULL"
  /\ global_bound = 0
  /\ installed = {}
  /\ opc = "idle"
  /\ handlers = <<>>
  /\ fired = 0
  /\ delivered = 0
  /\ crashed = FALSE

\* The thread that called btc_ps_onterm runs unless a signal handler has
\* interrupted it (unix); on win the handler threads run beside it.
MainRuns == ~crashed /\ (platform = "unix" => handlers = <<>>)

\* Activation i of real_handler may take a step.
HandlerRuns(i) ==
  /\ ~crashed
  /\ i \in 1..Len(handlers)
  /\ platform = "unix" => i = Len(handlers)

\* global_handler = handler;
OnTermSetHandler ==
  /\ MainRuns
  /\ opc = "set_handler"
  /\ global_handler' = "cb"
  /\ opc' = "set_arg"
  /\ UNCHANGED <<platform, global_arg, global_bound, installed, handlers, fired, delivered, crashed>>
  /\ TermFrame

\* global_arg = arg;
OnTermSetArg ==
  /\ MainRuns
  /\ opc = "set_arg"
  /\ global_arg' = "arg"
  /\ opc' = IF platform = "unix" THEN "sigterm" ELSE "test_bound"
  /\ UNCHANGED <<platform, global_handler, global_bound, installed, handlers, fired, delivered, crashed>>
  /\ TermFrame

\* btc_signal(SIGTERM, real_handler);
OnTermSigterm ==
  /\ MainRuns
  /\ opc = "sigterm"
  /\ installed' = installed \cup {"SIGTERM"}
  /\ opc' = "sigint"
  /\ UNCHANGED <<platform, global_handler, global_arg, global_bound, handlers, fired, delivered, crashed>>
  /\ TermFrame

\* btc_signal(SIGINT, real_handler);
OnTermSigint ==
  /\ MainRuns
  /\ opc = "sigint"
  /\ installed' = installed \cup {"SIGINT"}
  /\ opc' = "done"
  /\ UNCHANGED <<platform, global_handler, global_arg, global_bound, handlers, fired, delivered, crashed>>
  /\ TermFrame

\* if (!global_bound) { global_bound = 1;
OnTermTestBound ==
  /\ MainRuns
  /\ opc = "test_bound"
  /\ IF global_bound = 0
       THEN global_bound' = 1 /\ opc' = "register"
       ELSE opc' = "done" /\ UNCHANGED global_bound
  /\ UNCHANGED <<platform, global_handler, global_arg, installed, handlers, fired, delivered, crashed>>
  /\ TermFrame

\* SetConsoleCtrlHandler(real_handler, TRUE);
OnTermRegister ==
  /\ MainRuns
  /\ opc = "register"
  /\ installed' = ConsoleEvents
  /\ opc' = "done"
  /\ UNCHANGED <<platform, global_handler, global_arg, global_bound, handlers, fired, delivered, crashed>>
  /\ TermFrame

\* A termination event arrives and real_handler starts for it.  On unix a
\* signal whose handler is running is blocked until that handler returns.
Deliver(e) ==
  /\ ~crashed
  /\ delivered < MaxEvents
  /\ e \in installed
  /\ platform = "unix" => \A i \in 1..Len(handlers) : handlers[i].ev # e
  /\ handlers' = Append(handlers, [ev |-> e, pc |-> "test", fn |-> "NULL"])
  /\ delivered' = delivered + 1
  /\ UNCHANGED <<platform, global_handler, global_arg, global_bound, installed, opc, fired, crashed>>
  /\ TermFrame

\* if (global_handler != NULL) {
HandlerTest(i) ==
  /\ HandlerRuns(i)
  /\ handlers[i].pc = "test"
  /\ handlers' = [handlers EXCEPT ![i].fn = global_handler,
                                   ![i].pc = IF global_handler # "NULL"
                                               THEN "call" ELSE "after"]
  /\ UNCHANGED <<platform, global_handler, global_arg, global_bound, installed, opc, fired, delivered, crashed>>
  /\ TermFrame

\* global_handler(global_arg); with the slot loaded again (reload) or with
\* the value the test loaded.
HandlerCall(i, reload) ==
  /\ HandlerRuns(i)
  /\ handlers[i].pc = "call"
  /\ LET f == IF reload THEN global_handler ELSE handlers[i].fn
     IN  IF f = "NULL"
           THEN /\ crashed' = TRUE
                /\ UNCHANGED <<handlers, fired>>
           ELSE /\ fired' = fired + 1
                /\ handlers' = [handlers EXCEPT ![i].pc = "running"]
                /\ UNCHANGED crashed
  /\ UNCHANGED <<platform, global_handler, global_arg, global_bound, installed, opc, delivered>>
  /\ TermFrame

\* The callback returns into real_handler.
HandlerCallbackReturns(i) ==
  /\ HandlerRuns(i)
  /\ handlers[i].pc = "running"
  /\ handlers' = [handlers EXCEPT ![i].pc = "clear"]
  /\ UNCHANGED <<platform, global_handler, global_arg, global_bound, installed, opc, fired, delivered, crashed>>
  /\ TermFrame

\* global_handler = NULL; }
HandlerClear(i) ==
  /\ HandlerRuns(i)
  /\ handlers[i].pc = "clear"
  /\ global_handler' = "NULL"
  /\ handlers' = [handlers EXCEPT ![i].pc = "after"]
  /\ UNCHANGED <<platform, global_arg, global_bound, installed, opc, fired, delivered, crashed>>
  /\ TermFrame

\* unix: real_handler returns and the interrupted code resumes.
\* win: Sleep(INFINITE); the thread never returns.
HandlerLeave(i) ==
  /\ HandlerRuns(i)
  /\ handlers[i].pc = "after"
  /\ handlers' = IF platform = "unix"
                   THEN SubSeq(handlers, 1, Len(handlers) - 1)
                   ELSE [handlers EXCEPT ![i].pc = "sleep"]
  /\ UNCHANGED <<platform, global_handler, global_arg, global_bound, installed, opc, fired, delivered, crashed>>
  /\ TermFrame

(***************************************************************************)
(* The once-initialization guard of BTCIsWindowsNT, btc_sys_datadir,       *)
(* btc_time_qpf and btc_mutex_tryinit: the same code around four bodies.   *)
(***************************************************************************)
Threads == 1..NThreads

OnceSites ==
  {"BTCIsWindowsNT", "btc_sys_datadir", "btc_time_qpf", "btc_mutex_tryinit"}

\* The function-local guards start at 0 (static storage); a mutex starts at 0
\* when statically allocated and at 2, with its handle initialized, after
\* btc_mutex_init.
OnceInit ==
  /\ onceSite \in OnceSites
  /\ \/ /\ state = 0
        /\ resource = "unset"
        /\ inits = 0
     \/ /\ onceSite = "btc_mutex_tryinit"
        /\ state = 2
        /\ resource = "set"
        /\ inits = 1
  /\ tpc = [t \in Threads |-> "idle"]
  /\ value = [t \in Threads |-> 0]
  /\ used = [t \in Threads |-> "none"]
  /\ spun = [t \in Threads |-> FALSE]
  /\ fault = "none"

OnceIdle ==
  /\ onceSite = "none"
  /\ state = 0
  /\ resource = "unset"
  /\ inits = 0
  /\ tpc = <<>>
  /\ value = <<>>
  /\ used = <<>>
  /\ spun = <<>>
  /\ fault = "none"

\* A thread calls the guarded function.
OnceEnter(t) ==
  /\ tpc[t] = "idle"
  /\ tpc' = [tpc EXCEPT ![t] = "cas"]
  /\ UNCHANGED <<onceSite, state, resource, inits, value, used, spun, fault>>
  /\ OnceFrame

\* The guard with a plain load in place of the compare-exchange.
OnceCas_plainLoad(t) ==
  /\ tpc[t] = "cas"
  /\ value' = [value EXCEPT ![t] = state]
  /\ tpc' = [tpc EXCEPT ![t] = IF state = 1 THEN "sleep" ELSE "test"]
  /\ UNCHANGED <<onceSite, state, resource, inits, used, spun, fault>>
  /\ OnceFrame

\* value = InterlockedCompareExchange(&state, 1, 0), and the loop test.
OnceCas(t) ==
  /\ tpc[t] = "cas"
  /\ value' = [value EXCEPT ![t] = state]
  /\ state' = IF state = 0 THEN 1 ELSE state
  /\ tpc' = [tpc EXCEPT ![t] = IF state = 1 THEN "sleep" ELSE "test"]
  /\ UNCHANGED <<onceSite, resource, inits, used, spun, fault>>
  /\ OnceFrame

\* Sleep(0) returns and the loop tries again.
OnceSleep(t) ==
  /\ tpc[t] = "sleep"
  /\ spun' = [spun EXCEPT ![t] = TRUE]
  /\ tpc' = [tpc EXCEPT ![t] = "cas"]
  /\ UNCHANGED <<onceSite, state, resource, inits, value, used, fault>>
  /\ OnceFrame

\* if (value == 0) ... else assert(value == 2).
OnceTest(t) ==
  /\ tpc[t] = "test"
  /\ IF value[t] = 0
       THEN /\ tpc' = [tpc EXCEPT ![t] = "body"]
            /\ fault' = fault
       ELSE IF value[t] = 2
         THEN /\ tpc' = [tpc EXCEPT ![t] = "past"]
              /\ fault' = fault
         ELSE /\ tpc' = [tpc EXCEPT ![t] = "dead"]
              /\ fault' = "assert"
  /\ UNCHANGED <<onceSite, state, resource, inits, value, used, spun>>
  /\ OnceFrame

\* The initialization body.
OnceBody(t) ==
  /\ tpc[t] = "body"
  /\ resource' = "set"
  /\ inits' = inits + 1
  /\ tpc' = [tpc EXCEPT ![t] = "xchg"]
  /\ UNCHANGED <<onceSite, state, value, used, spun, fault>>
  /\ OnceFrame

\* if (InterlockedExchange(&state, 2) != 1) abort().
OnceExchange(t) ==
  /\ tpc[t] = "xchg"
  /\ state' = 2
  /\ IF state # 1
       THEN /\ tpc' = [tpc EXCEPT ![t] = "dead"]
            /\ fault' = "abort"
       ELSE /\ tpc' = [tpc EXCEPT ![t] = "past"]
            /\ fault' = fault
  /\ UNCHANGED <<onceSite, resource, inits, value, used, spun>>
  /\ OnceFrame

\* Behind the guard the caller reads what the body initialized.
OnceUse(t) ==
  /\ tpc[t] = "past"
  /\ used' = [used EXCEPT ![t] = resource]
  /\ tpc' = [tpc EXCEPT ![t] = "done"]
  /\ UNCHANGED <<onceSite, state, resource, inits, value, spun, fault>>
  /\ OnceFrame

\* The steps a scheduled thread takes inside the guarded function.
OnceStep(t) ==
  \/ OnceCas(t)
  \/ OnceSleep(t)
  \/ OnceTest(t)
  \/ OnceBody(t)
  \/ OnceExchange(t)
  \/ OnceUse(t)

(***************************************************************************)
(* The condition variable: btc_cond_init, btc_cond_wait, btc_cond_signal   *)
(* and btc_cond_broadcast.  Waiters call btc_cond_wait holding the mutex;  *)
(* one more thread, the waker, calls btc_cond_signal and                   *)
(* btc_cond_broadcast, also holding the mutex.                             *)
(***************************************************************************)
CondWaiters == 1..NWaiters

Waker == NWaiters + 1

\* WAIT_OBJECT_0 and WAIT_OBJECT_0 + 1, as indices into handles[].
WaitSignal == 0

WaitBroadcast == 1

condCounts == <<waitCalls, arrived, sigCalls, bcastCalls, onTime>>

\* The waiters parked inside WaitForMultipleObjects.
Blocked == {t \in CondWaiters : cpc[t] = "w_blocked"}

\* The state btc_cond_init leaves.
CondInit ==
  /\ waiters = 0
  /\ signal = FALSE
  /\ broadcast = FALSE
  /\ lock = 0
  /\ mtx = 0
  /\ cpc = [t \in 1..Waker |-> "idle"]
  /\ result = [t \in CondWaiters |-> WaitSignal]
  /\ last_waiter = [t \in CondWaiters |-> FALSE]
  /\ have_waiters = FALSE
  /\ waitCalls = 0
  /\ arrived = 0
  /\ sigCalls = 0
  /\ bcastCalls = 0
  /\ onTime = TRUE

CondIdle ==
  /\ waiters = 0
  /\ signal = FALSE
  /\ broadcast = FALSE
  /\ lock = 0
  /\ mtx = 0
  /\ cpc = <<>>
  /\ result = <<>>
  /\ last_waiter = <<>>
  /\ have_waiters = FALSE
  /\ waitCalls = 0
  /\ arrived = 0
  /\ sigCalls = 0
  /\ bcastCalls = 0
  /\ onTime = TRUE

\* btc_mutex_lock by a waiter about to wait.
CondLock(t) ==
  /\ cpc[t] = "idle"
  /\ waitCalls < MaxWaitCalls
  /\ mtx = 0
  /\ mtx' = t
  /\ cpc' = [cpc EXCEPT ![t] = "locked"]
  /\ UNCHANGED <<waiters, signal, broadcast, lock, result, last_waiter,
                 have_waiters, condCounts>>
  /\ CondFrame

\* btc_cond_wait: EnterCriticalSection(&cond->lock).
CondWaitEnter(t) ==
  /\ cpc[t] = "locked"
  /\ lock = 0
  /\ lock' = t
  /\ waitCalls' = waitCalls + 1
  /\ cpc' = [cpc EXCEPT ![t] = "w_inc"]
  /\ UNCHANGED <<waiters, signal, broadcast, mtx, result, last_waiter,
                 have_waiters, arrived, sigCalls, bcastCalls, onTime>>
  /\ CondFrame

\* cond->waiters++.
CondWaitIncr(t) ==
  /\ cpc[t] = "w_inc"
  /\ waiters' = waiters + 1
  /\ cpc' = [cpc EXCEPT ![t] = "w_leave"]
  /\ UNCHANGED <<signal, broadcast, lock, mtx, result, last_waiter,
                 have_waiters, condCounts>>
  /\ CondFrame

\* LeaveCriticalSection(&cond->lock).
CondWaitLeave(t) ==
  /\ cpc[t] = "w_leave"
  /\ lock' = 0
  /\ cpc' = [cpc EXCEPT ![t] = "w_unlock"]
  /\ UNCHANGED <<waiters, signal, broadcast, mtx, result, last_waiter,
                 have_waiters, condCounts>>
  /\ CondFrame

\* LeaveCriticalSection(&mtx->handle).
CondWaitUnlock(t) ==
  /\ cpc[t] = "w_unlock"
  /\ mtx' = 0
  /\ arrived' = arrived + 1
  /\ cpc' = [cpc EXCEPT ![t] = "w_wait"]
  /\ UNCHANGED <<waiters, signal, broadcast, lock, result, last_waiter,
                 have_waiters, waitCalls, sigCalls, bcastCalls, onTime>>
  /\ CondFrame

\* WaitForMultipleObjects(2, handles, FALSE, INFINITE) is called: a signaled
\* event satisfies it at once, the lower index first, and the auto-reset
\* event is consumed; otherwise the thread parks.
CondWaitEvents(t) ==
  /\ cpc[t] = "w_wait"
  /\ IF signal
       THEN /\ signal' = FALSE
            /\ result' = [result EXCEPT ![t] = WaitSignal]
            /\ cpc' = [cpc EXCEPT ![t] = "w_woken"]
       ELSE IF broadcast
         THEN /\ signal' = signal
              /\ result' = [result EXCEPT ![t] = WaitBroadcast]
              /\ cpc' = [cpc EXCEPT ![t] = "w_woken"]
         ELSE /\ signal' = signal
              /\ result' = result
              /\ cpc' = [cpc EXCEPT ![t] = "w_blocked"]
  /\ UNCHANGED <<waiters, broadcast, lock, mtx, last_waiter, have_waiters,
                 condCounts>>
  /\ CondFrame

\* After the wait: EnterCriticalSection(&cond->lock).
CondWaitReenter(t) ==
  /\ cpc[t] = "w_woken"
  /\ lock = 0
  /\ lock' = t
  /\ cpc' = [cpc EXCEPT ![t] = "w_dec"]
  /\ UNCHANGED <<waiters, signal, broadcast, mtx, result, last_waiter,
                 have_waiters, condCounts>>
  /\ CondFrame

\* cond->waiters--; last_waiter = (result == WAIT_OBJECT_0 + 1 &&
\* cond->waiters == 0).
CondWaitDecr(t) ==
  /\ cpc[t] = "w_dec"
  /\ waiters' = waiters - 1
  /\ last_waiter' =
       [last_waiter EXCEPT ![t] = (result[t] = WaitBroadcast /\ waiters' = 0)]
  /\ cpc' = [cpc EXCEPT ![t] = "w_leave2"]
  /\ UNCHANGED <<signal, broadcast, lock, mtx, result, have_waiters,
                 condCounts>>
  /\ CondFrame

\* LeaveCriticalSection(&cond->lock).
CondWaitLeave2(t) ==
  /\ cpc[t] = "w_leave2"
  /\ lock' = 0
  /\ cpc' = [cpc EXCEPT ![t] = "w_reset"]
  /\ UNCHANGED <<waiters, signal, broadcast, mtx, result, last_waiter,
                 have_waiters, condCounts>>
  /\ CondFrame

\* if (last_waiter) ResetEvent(cond->broadcast).
CondWaitReset(t) ==
  /\ cpc[t] = "w_reset"
  /\ broadcast' = IF last_waiter[t] THEN FALSE ELSE broadcast
  /\ cpc' = [cpc EXCEPT ![t] = "w_relock"]
  /\ UNCHANGED <<waiters, signal, lock, mtx, result, last_waiter,
                 have_waiters, condCounts>>
  /\ CondFrame

\* EnterCriticalSection(&mtx->handle), and btc_cond_wait returns.
CondWaitRelock(t) ==
  /\ cpc[t] = "w_relock"
  /\ mtx = 0
  /\ mtx' = t
  /\ cpc' = [cpc EXCEPT ![t] = "held"]
  /\ UNCHANGED <<waiters, signal, broadcast, lock, result, last_waiter,
                 have_waiters, condCounts>>
  /\ CondFrame

\* btc_mutex_unlock by a waiter that has returned.
CondUnlock(t) ==
  /\ cpc[t] = "held"
  /\ mtx' = 0
  /\ cpc' = [cpc EXCEPT ![t] = "idle"]
  /\ UNCHANGED <<waiters, signal, broadcast, lock, result, last_waiter,
                 have_waiters, condCounts>>
  /\ CondFrame

\* btc_mutex_lock by the waker.
WakerLock ==
  /\ cpc[Waker] = "idle"
  /\ sigCalls + bcastCalls < MaxWakeCalls
  /\ mtx = 0
  /\ mtx' = Waker
  /\ cpc' = [cpc EXCEPT ![Waker] = "locked"]
  /\ UNCHANGED <<waiters, signal, broadcast, lock, result, last_waiter,
                 have_waiters, condCounts>>
  /\ CondFrame

\* btc_cond_signal: EnterCriticalSection(&cond->lock).
SignalEnter ==
  /\ cpc[Waker] = "locked"
  /\ lock = 0
  /\ lock' = Waker
  /\ sigCalls' = sigCalls + 1
  /\ onTime' = (onTime /\ arrived = NWaiters)
  /\ cpc' = [cpc EXCEPT ![Waker] = "s_read"]
  /\ UNCHANGED <<waiters, signal, broadcast, mtx, result, last_waiter,
                 have_waiters, waitCalls, arrived, bcastCalls>>
  /\ CondFrame

\* have_waiters = (cond->waiters > 0).
SignalRead ==
  /\ cpc[Waker] = "s_read"
  /\ have_waiters' = (waiters > 0)
  /\ cpc' = [cpc EXCEPT ![Waker] = "s_leave"]
  /\ UNCHANGED <<waiters, signal, broadcast, lock, mtx, result, last_waiter,
                 condCounts>>
  /\ CondFrame

\* LeaveCriticalSection(&cond->lock).
SignalLeave ==
  /\ cpc[Waker] = "s_leave"
  /\ lock' = 0
  /\ cpc' = [cpc EXCEPT ![Waker] = "s_set"]
  /\ UNCHANGED <<waiters, signal, broadcast, mtx, result, last_waiter,
                 have_waiters, condCounts>>
  /\ CondFrame

\* if (have_waiters) SetEvent(cond->signal): an auto-reset event releases
\* one parked thread and stays unsignaled, or, with no thread parked,
\* becomes signaled (and stays so if it already was).
SignalSet ==
  /\ cpc[Waker] = "s_set"
  /\ IF ~have_waiters
       THEN UNCHANGED <<signal, result>>
            /\ cpc' = [cpc EXCEPT ![Waker] = "returned"]
       ELSE IF Blocked = {}
         THEN /\ signal' = TRUE
              /\ result' = result
              /\ cpc' = [cpc EXCEPT ![Waker] = "returned"]
         ELSE \E b \in Blocked :
                /\ signal' = signal
                /\ result' = [result EXCEPT ![b] = WaitSignal]
                /\ cpc' = [cpc EXCEPT ![Waker] = "returned", ![b] = "w_woken"]
  /\ UNCHANGED <<waiters, broadcast, lock, mtx, last_waiter, have_waiters,
                 condCounts>>
  /\ CondFrame

\* btc_cond_broadcast: EnterCriticalSection(&cond->lock).
BroadcastEnter ==
  /\ cpc[Waker] = "locked"
  /\ lock = 0
  /\ lock' = Waker
  /\ bcastCalls' = bcastCalls + 1
  /\ onTime' = (onTime /\ arrived = NWaiters)
  /\ cpc' = [cpc EXCEPT ![Waker] = "b_read"]
  /\ UNCHANGED <<waiters, signal, broadcast, mtx, result, last_waiter,
                 have_waiters, waitCalls, arrived, sigCalls>>
  /\ CondFrame

\* have_waiters = (cond->waiters > 0).
BroadcastRead ==
  /\ cpc[Waker] = "b_read"
  /\ have_waiters' = (waiters > 0)
  /\ cpc' = [cpc EXCEPT ![Waker] = "b_leave"]
  /\ UNCHANGED <<waiters, signal, broadcast, lock, mtx, result, last_waiter,
                 condCounts>>
  /\ CondFrame

\* LeaveCriticalSection(&cond->lock).
BroadcastLeave ==
  /\ cpc[Waker] = "b_leave"
  /\ lock' = 0
  /\ cpc' = [cpc EXCEPT ![Waker] = "b_set"]
  /\ UNCHANGED <<waiters, signal, broadcast, mtx, result, last_waiter,
                 have_waiters, condCounts>>
  /\ CondFrame

\* if (have_waiters) SetEvent(cond->broadcast): a manual-reset event becomes
\* signaled and releases every parked thread.
BroadcastSet ==
  /\ cpc[Waker] = "b_set"
  /\ IF have_waiters
       THEN /\ broadcast' = TRUE
            /\ result' = [t \in CondWaiters |->
                            IF t \in Blocked THEN WaitBroadcast ELSE result[t]]
            /\ cpc' = [t \in 1..Waker |->
                         IF t = Waker THEN "returned"
                         ELSE IF t \in Blocked THEN "w_woken" ELSE cpc[t]]
       ELSE /\ UNCHANGED <<broadcast, result>>
            /\ cpc' = [cpc EXCEPT ![Waker] = "returned"]
  /\ UNCHANGED <<waiters, signal, lock, mtx, last_waiter, have_waiters,
                 condCounts>>
  /\ CondFrame

\* btc_mutex_unlock by the waker.
WakerUnlock ==
  /\ cpc[Waker] = "returned"
  /\ mtx' = 0
  /\ cpc' = [cpc EXCEPT ![Waker] = "idle"]
  /\ UNCHANGED <<waiters, signal, broadcast, lock, result, last_waiter,
                 have_waiters, condCounts>>
  /\ CondFrame

(***************************************************************************)
(* The specifications.                                                     *)
(***************************************************************************)
Init == CodecInit /\ VerifyIdle /\ MineIdle /\ TermIdle /\ OnceIdle /\ CondIdle

Next ==
  \/ Serialize
  \/ \E n \in 0..(btc_header_size + ExtraBytes) : Feed(n)
  \/ ReadVersion
  \/ ReadPrevBlock
  \/ ReadMerkleRoot
  \/ ReadTime
  \/ ReadBits
  \/ ReadNonce
  \/ ReadReturn

Spec == Init /\ [][Next]_vars

InitVerify == VerifyInit /\ CodecIdle /\ MineIdle /\ TermIdle /\ OnceIdle /\ CondIdle

NextVerify ==
  \/ VerifyExport
  \/ VerifyHash
  \/ VerifyCompare

SpecVerify == InitVerify /\ [][NextVerify]_vars

InitMine == MineInit /\ CodecIdle /\ VerifyIdle /\ TermIdle /\ OnceIdle /\ CondIdle

NextMine ==
  \/ MineEnter
  \/ \E t \in ClockVals : MineClock(t)
  \/ MinePrefix
  \/ MineFinal
  \/ MineCompare
  \/ MineIncr
  \/ MineLimit
  \/ MineWhile

SpecMine == InitMine /\ [][NextMine]_vars

InitTerm == TermInit /\ CodecIdle /\ VerifyIdle /\ MineIdle /\ OnceIdle /\ CondIdle

NextTerm ==
  \/ OnTermSetHandler
  \/ OnTermSetArg
  \/ OnTermSigterm
  \/ OnTermSigint
  \/ OnTermTestBound
  \/ OnTermRegister
  \/ \E e \in UnixSignals \cup ConsoleEvents : Deliver(e)
  \/ \E i \in 1..MaxEvents : HandlerTest(i)
  \/ \E i \in 1..MaxEvents, reload \in BOOLEAN : HandlerCall(i, reload)
  \/ \E i \in 1..MaxEvents : HandlerCallbackReturns(i)
  \/ \E i \in 1..MaxEvents : HandlerClear(i)
  \/ \E i \in 1..MaxEvents : HandlerLeave(i)

SpecTerm == InitTerm /\ [][NextTerm]_vars

InitOnce == OnceInit /\ CodecIdle /\ VerifyIdle /\ MineIdle /\ TermIdle /\ CondIdle

NextOnce ==
  \/ \E t \in Threads : OnceEnter(t)
  \/ \E t \in Threads : OnceCas(t)
  \/ \E t \in Threads : OnceSleep(t)
  \/ \E t \in Threads : OnceTest(t)
  \/ \E t \in Threads : OnceBody(t)
  \/ \E t \in Threads : OnceExchange(t)
  \/ \E t \in Threads : OnceUse(t)

\* Fair scheduling: a thread inside the guarded function keeps being run.
SpecOnce ==
  InitOnce /\ [][NextOnce]_vars /\ \A t \in Threads : WF_vars(OnceStep(t))

InitCond ==
  CondInit /\ CodecIdle /\ VerifyIdle /\ MineIdle /\ TermIdle /\ OnceIdle

NextCond ==
  \/ \E t \in CondWaiters : CondLock(t)
  \/ \E t \in CondWaiters : CondWaitEnter(t)
  \/ \E t \in CondWaiters : CondWaitIncr(t)
  \/ \E t \in CondWaiters : CondWaitLeave(t)
  \/ \E t \in CondWaiters : CondWaitUnlock(t)
  \/ \E t \in CondWaiters : CondWaitEvents(t)
  \/ \E t \in CondWaiters : CondWaitReenter(t)
  \/ \E t \in CondWaiters : CondWaitDecr(t)
  \/ \E t \in CondWaiters : CondWaitLeave2(t)
  \/ \E t \in CondWaiters : CondWaitReset(t)
  \/ \E t \in CondWaiters : CondWaitRelock(t)
  \/ \E t \in CondWaiters : CondUnlock(t)
  \/ WakerLock
  \/ SignalEnter
  \/ SignalRead
  \/ SignalLeave
  \/ SignalSet
  \/ BroadcastEnter
  \/ BroadcastRead
  \/ BroadcastLeave
  \/ BroadcastSet
  \/ WakerUnlock

SpecCond == InitCond /\ [][NextCond]_vars

(***************************************************************************)
(* Properties of the codec, stated for Spec.                               *)
(***************************************************************************)
ReadReturned == rpc = "done"

ReadFailed == rpc = "done" /\ rret = 0

\* The wire layout: where each field starts and how wide it is.
FieldOffset ==
  [f \in {"version", "prev_block", "merkle_root", "time", "bits", "nonce"} |->
     CASE f = "version" -> 0
       [] f = "prev_block" -> 4
       [] f = "merkle_root" -> 36
       [] f = "time" -> 68
       [] f = "bits" -> 72
       [] f = "nonce" -> 76]

FieldWidth ==
  [f \in DOMAIN FieldOffset |->
     IF f \in {"prev_block", "merkle_root"} THEN 32 ELSE 4]

\* C1: a header written by btc_header_write and read back by btc_header_read
\* with at least 80 bytes remaining is read successfully, equals the written
\* header in all six fields, and exactly 80 bytes are consumed.
C1_RoundTrip ==
  (ReadReturned /\ xn0 >= 80) =>
     /\ rret = 1
     /\ dst.version = src.version
     /\ dst.prev_block = src.prev_block
     /\ dst.merkle_root = src.merkle_root
     /\ dst.time = src.time
     /\ dst.bits = src.bits
     /\ dst.nonce = src.nonce
     /\ xp = 80
     /\ xn = xn0 - 80

C1_Witness ==
  /\ ReadReturned /\ rret = 1 /\ xn0 > 80
  /\ dst = src /\ dst0 # src /\ src.time = U32Max /\ src.version.hi = 32768

\* C2: btc_header_read returns false whenever fewer than 80 bytes remain, and
\* with 80 or more it returns true having consumed exactly 80.
C2_ReadBoundary ==
  ReadReturned =>
     IF xn0 < 80
       THEN rret = 0
       ELSE rret = 1 /\ xp = 80 /\ xn = xn0 - 80

C2_Witness == ReadReturned /\ xn0 = 79 /\ rret = 0

\* C3 as stated: when btc_header_read returns false, all six fields of the
\* destination header still hold their values from before the call.
C3_NoPartialHeader == ReadFailed => dst = dst0

\* C3 as amended: when btc_header_read returns false, the failing field and
\* every field after it still hold their values from before the call, and
\* every field before it holds the value parsed from the buffer; the header
\* is wholly unchanged exactly when the first sub-read failed.
C3_PartialHeaderOnFailure ==
  ReadFailed =>
     /\ \A f \in DOMAIN FieldOffset :
          IF FieldOffset[f] < FieldOffset[rfail]
            THEN dst[f] = src[f]
            ELSE dst[f] = dst0[f]
     /\ (rfail = "version" => dst = dst0)

C3_Witness ==
  /\ ReadFailed /\ xn0 = 79 /\ rfail = "nonce"
  /\ dst.bits = src.bits /\ dst.bits # dst0.bits /\ dst.nonce = dst0.nonce
  /\ dst.nonce # src.nonce

\* C4: when btc_header_read fails, the cursor stands at the start of the first
\* field whose sub-read failed (0, 4, 36, 68, 72 or 76 bytes consumed), that
\* sub-read consumed nothing, and cursor advance plus remaining is always the
\* initial remaining.
C4_CursorAtFailure ==
  /\ (rpc \notin {"write", "feed"} => xp + xn = xn0)
  /\ ReadFailed =>
       /\ xp = FieldOffset[rfail]
       /\ xp \in {0, 4, 36, 68, 72, 76}
       /\ xn < FieldWidth[rfail]
       /\ \A f \in DOMAIN FieldOffset :
            FieldOffset[f] < xp => FieldOffset[f] + FieldWidth[f] <= xn0

C4_Witness == ReadFailed /\ rfail = "bits" /\ xp = 72 /\ xn = 3 /\ xn0 = 75


(***************************************************************************)
(* Properties of btc_header_verify, stated for SpecVerify.                 *)
(***************************************************************************)
\* C5: btc_header_verify returns true if and only if btc_compact_export of
\* the header's bits succeeds and the header's hash compares <= 0 against the
\* decoded target; a failed decode gives false (the call always ends with a
\* boolean), and the header is not modified.
C5_VerifyAgreement ==
  /\ vhdr = vhdr0
  /\ vret \in {-1, 0, 1}
  /\ vpc = "done" =>
       /\ vret \in {0, 1}
       /\ (vret = 1) <=>
            /\ btc_compact_export(vhdr0.bits).ok
            /\ btc_hash_compare(btc_header_hash(vhdr0),
                                btc_compact_export(vhdr0.bits).target) <= 0
       /\ (~btc_compact_export(vhdr0.bits).ok => vret = 0)
  /\ vpc # "done" => vret = -1

C5_Witness ==
  /\ vpc = "done" /\ vret = 1 /\ vhdr.bits = BitsRegtest
  /\ btc_hash_compare(vhash, vtarget) < 0

(***************************************************************************)
(* Properties of btc_header_mine, stated for SpecMine.                     *)
(***************************************************************************)
\* n + k on 32 bits, and how often n + k passes 0xFFFFFFFF, for small k.
U32Add(n, k) ==
  U32((n.hi + ((n.lo + k) \div W16)) % W16, (n.lo + k) % W16)

U32Carry(n, k) == (n.hi + ((n.lo + k) \div W16)) \div W16

MineReturned == mpc = "done"

\* C6: whenever btc_header_mine returns true, the header as left in memory
\* hashes to a value <= target: the hash that won is the hash of the header's
\* stored fields, its time is the clock's last value and its nonce is the
\* winning one, not one past it.
C6_MineCorrect ==
  (MineReturned /\ mret = 1) =>
     /\ btc_hash_compare(btc_header_hash(hdr), target) <= 0
     /\ hash = btc_header_hash(hdr)
     /\ hdr.time = lastClock
     /\ hdr.nonce = U32Add(hdr0.nonce, finals - 1)

C6_Witness ==
  /\ MineReturned /\ mret = 1 /\ finals >= 2 /\ clockCalls = 2
  /\ btc_hash_compare(btc_header_hash([hdr EXCEPT !.nonce = U32Inc(hdr.nonce)]), target) > 0

\* C7: with a limit k > 0 btc_header_mine finalizes at most k hashes in all,
\* across wraps and clock re-queries, and returns false only after the k-th
\* unsuccessful attempt; with limit 0 it never returns false.
C7_MineLimit ==
  /\ limit > 0 => finals <= limit
  /\ (MineReturned /\ mret = 0) =>
       limit > 0 /\ finals = limit /\ attempt = limit
  /\ limit = 0 => mret # 0

C7_Witness ==
  /\ MineReturned /\ mret = 0 /\ limit = 3 /\ finals = 3 /\ clockCalls = 2

\* C8: when btc_header_mine returns false with limit k > 0 from starting
\* nonce n0, the nonce is (n0 + k) mod 2^32, also across and onto the wrap,
\* and the time is what the most recent clock call returned.
C8_MineExhausted ==
  (MineReturned /\ mret = 0) =>
     /\ hdr.nonce = U32Add(hdr0.nonce, limit)
     /\ hdr.time = lastClock
     /\ hdr = [hdr0 EXCEPT !.nonce = hdr.nonce, !.time = hdr.time]

C8_Witness ==
  /\ MineReturned /\ mret = 0 /\ limit = 2 /\ hdr0.nonce = U32(65535, 65534)
  /\ hdr.nonce = U32Zero /\ clockCalls = 1

C8_WitnessAcross ==
  /\ MineReturned /\ mret = 0 /\ limit = 3 /\ hdr0.nonce = U32(65535, 65534)
  /\ hdr.nonce = U32(0, 1) /\ clockCalls = 2 /\ hdr.time = lastClock

\* C9: the clock is called once on entry and once more for each wrap of the
\* nonce after which the search goes on, and never otherwise; the prefix
\* snapshot is that of the header's current fields at every attempt, so each
\* hash finalized is the hash of the header as it stands; and the attempts
\* start at the caller's nonce and go up by one.
C9_ClockAndSnapshot ==
  /\ mpc = "final" =>
       /\ clockCalls = 1 + U32Carry(hdr0.nonce, finals)
       /\ hdr.nonce = U32Add(hdr0.nonce, finals)
       /\ pre = PrefixStream(hdr)
       /\ hdr.time = lastClock
  /\ mpc \in {"compare", "incr"} =>
       /\ clockCalls = 1 + U32Carry(hdr0.nonce, finals - 1)
       /\ hdr.nonce = U32Add(hdr0.nonce, finals - 1)
       /\ hash = btc_header_hash(hdr)
       /\ ctx = HashStream(hdr)
  /\ mpc \in {"limit", "while", "done"} =>
       clockCalls = 1 + U32Carry(hdr0.nonce, finals - 1)
  /\ mpc = "clock" => clockCalls = U32Carry(hdr0.nonce, finals)
  /\ mpc = "prefix" => clockCalls = 1 + U32Carry(hdr0.nonce, finals)

C9_Witness ==
  /\ mpc = "compare" /\ clockCalls = 2 /\ finals = 3
  /\ hdr0.nonce = U32(65535, 65534) /\ hdr.nonce = U32Zero
  /\ hdr.time # hdr0.time /\ hash = btc_header_hash(hdr)

\* C11: the bytes btc_header_hash feeds to the hasher are the 80 bytes
\* btc_header_write emits for the same header (the six fields in the same
\* order with widths 4, 32, 32, 4, 4, 4), and the stream of each attempt of
\* btc_header_mine, the 76-byte prefix snapshot followed by the nonce, is
\* that same stream.
C11_SameStream ==
  /\ mpc # "idle" =>
       /\ HashStream(hdr) = btc_header_write(<<>>, hdr)
       /\ Len(HashStream(hdr)) = 80
  /\ mpc = "final" =>
       /\ Len(pre) = 76
       /\ pre = SubSeq(btc_header_write(<<>>, hdr), 1, 76)
  /\ mpc = "compare" =>
       /\ ctx = btc_header_write(<<>>, hdr)
       /\ ctx = pre \o SubSeq(btc_header_write(<<>>, hdr), 77, 80)
       /\ hash = btc_hash256_final(btc_header_write(<<>>, hdr))

C11_Witness ==
  /\ mpc = "compare" /\ clockCalls = 2 /\ finals = 2
  /\ hdr.time # hdr0.time /\ hdr.nonce = U32Zero
  /\ Len(ctx) = 80 /\ ctx = btc_header_write(<<>>, hdr)

(***************************************************************************)
(* Properties of the termination callback, stated for SpecTerm.            *)
(***************************************************************************)
\* C10: after btc_ps_onterm(handler, arg), under every sequence and
\* interleaving of termination events, the installed callback is invoked at
\* most once.
C10_FiredAtMostOnce == fired <= 1

(***************************************************************************)
(* Properties of the once-initialization guard, stated for SpecOnce.       *)
(***************************************************************************)
OncePast(t) == tpc[t] \in {"past", "done"}

\* C12: under every interleaving of concurrent callers the initialization
\* body runs exactly once, no caller is past the guard before the guard word
\* is 2, neither abort() nor the failing assert is reached, and under fair
\* scheduling every caller spinning in the Sleep(0) loop eventually proceeds.
C12_OnceInit ==
  /\ [](/\ inits <= 1
        /\ fault = "none"
        /\ \A t \in Threads :
             /\ OncePast(t) => state = 2 /\ inits = 1 /\ resource = "set"
             /\ tpc[t] = "done" => used[t] = "set"
             /\ tpc[t] # "dead")
  /\ \A t \in Threads : (tpc[t] = "sleep") ~> OncePast(t)

C12_Witness ==
  /\ \A t \in Threads : tpc[t] = "done" /\ used[t] = "set"
  /\ \E t \in Threads : spun[t] /\ value[t] = 2
  /\ \E t \in Threads : value[t] = 0
  /\ state = 2 /\ inits = 1

(***************************************************************************)
(* Properties of the condition variable, stated for SpecCond.              *)
(***************************************************************************)
\* The positions of btc_cond_wait between cond->waiters++ and
\* cond->waiters--.
Counted ==
  {t \in CondWaiters :
     cpc[t] \in {"w_leave", "w_unlock", "w_wait", "w_blocked", "w_woken",
                 "w_dec"}}

\* No btc_cond_wait, btc_cond_signal or btc_cond_broadcast call is in
\* progress.
CondQuiet ==
  /\ \A t \in CondWaiters : cpc[t] \in {"idle", "locked", "held"}
  /\ cpc[Waker] \in {"idle", "locked", "returned"}

\* The wake-up calls made so far have all returned.
WakerOut == cpc[Waker] \in {"idle", "returned"}

\* C13: no wake-up is lost.  When NWaiters threads have incremented waiters
\* and released the mutex, and btc_cond_signal has then been called NWaiters
\* times with no further waiter arriving, no thread stays parked in
\* btc_cond_wait; and after one btc_cond_broadcast called while NWaiters
\* threads are so blocked no thread stays parked either.
C13_NoLostWakeup ==
  /\ (/\ onTime /\ arrived = NWaiters /\ WakerOut
      /\ sigCalls = NWaiters /\ bcastCalls = 0)
       => Blocked = {}
  /\ (/\ onTime /\ arrived = NWaiters /\ WakerOut
      /\ sigCalls = 0 /\ bcastCalls = 1)
       => Blocked = {}

\* C14: no stale event is left behind.  Whenever waiters = 0 and no call on
\* the condition variable is in progress, both events are unsignaled; and
\* waiters is never negative and equals the number of threads between the
\* increment and the decrement of btc_cond_wait.
C14_NoStaleEvent ==
  /\ (waiters = 0 /\ CondQuiet) => (~signal /\ ~broadcast)
  /\ waiters >= 0
  /\ waiters = Cardinality(Counted)

====
